---- MODULE Spec2Model ----
(***************************************************************************)
(* Streaming point-cloud loaders of project_pointcloud:                    *)
(*   loadPLYFile            src/src/utils/plyLoader.ts:88-268              *)
(*   loadTXTFile            src/src/utils/txtLoader.ts:5-166               *)
(*   loadPLYFileWithWorker  src/unnamed/part_001:22-151                    *)
(* and the viewer that starts the loads:                                   *)
(*   PointCloudViewer       src/src/components/PointCloudViewer.tsx        *)
(* Text is a sequence of one-character strings; one character is one byte. *)
(* A number is a natural; NaN is the value -1.  A percentage is an exact   *)
(* fraction <<numerator, denominator>>.                                    *)
(***************************************************************************)
EXTENDS Integers, Sequences, FiniteSets, TLC

\* ------------------------------------------------------------------------
\* Bounds of the model
\* ------------------------------------------------------------------------
\* at most this many body lines in an input text
MaxLines == 2
\* a chunk that ends inside a line and before the end has at most this size
MaxChunk == 2
\* onProgress invocations are counted up to this number
MaxCalls == 2

\* ------------------------------------------------------------------------
\* Program constants (scaled: see the comments)
\* ------------------------------------------------------------------------
\* plyLoader.ts:153 and txtLoader.ts:22 set 50000; scaled to the input size
BATCH_SIZE == 2
\* part_001:93 reports every 10000 points; scaled to the input size
WORKER_REPORT == 2
\* plyLoader.ts:178, txtLoader.ts:47: lines shorter than this are skipped
MIN_LINE_LENGTH == 10

NaN == -1
NL == "\n"
SP == " "

\* ------------------------------------------------------------------------
\* JavaScript string primitives, on sequences of characters, 0-based
\* ------------------------------------------------------------------------
Min(a, b) == IF a < b THEN a ELSE b
Max(a, b) == IF a > b THEN a ELSE b

IsWhitespace(c) == c \in {" ", "\n", "\r", "\t"}
IsDigit(c) == c \in {"0", "1", "2", "3", "4", "5", "6", "7", "8", "9"}
DigitValue(c) ==
  CASE c = "0" -> 0 [] c = "1" -> 1 [] c = "2" -> 2 [] c = "3" -> 3
    [] c = "4" -> 4 [] c = "5" -> 5 [] c = "6" -> 6 [] c = "7" -> 7
    [] c = "8" -> 8 [] c = "9" -> 9

\* String.prototype.indexOf(ch, from): first 0-based offset >= from, or -1
RECURSIVE indexOf(_, _, _)
indexOf(s, ch, from) ==
  IF from >= Len(s) THEN -1
  ELSE IF from >= 0 /\ s[from + 1] = ch THEN from
  ELSE indexOf(s, ch, from + 1)

\* String.prototype.substring(a, b): clamps both ends and swaps them if a > b
substring(s, a, b) ==
  LET ca == Min(Max(a, 0), Len(s))
      cb == Min(Max(b, 0), Len(s))
  IN SubSeq(s, Min(ca, cb) + 1, Max(ca, cb))

\* String.prototype.substring(a)
substringFrom(s, a) == substring(s, a, Len(s))

\* 1-based position of the first / last character that is not whitespace
\* (Len(s) + 1 / 0 if there is none)
RECURSIVE FirstInk(_, _)
FirstInk(s, i) ==
  IF i > Len(s) \/ ~IsWhitespace(s[i]) THEN i ELSE FirstInk(s, i + 1)
RECURSIVE LastInk(_, _)
LastInk(s, i) ==
  IF i < 1 \/ ~IsWhitespace(s[i]) THEN i ELSE LastInk(s, i - 1)

\* String.prototype.trim()
trim(s) == SubSeq(s, FirstInk(s, 1), LastInk(s, Len(s)))

\* String.prototype.startsWith(p)
startsWith(s, p) == Len(s) >= Len(p) /\ SubSeq(s, 1, Len(p)) = p

\* String.prototype.split(ch): always at least one element
RECURSIVE splitOn(_, _)
splitOn(s, ch) ==
  LET n == indexOf(s, ch, 0)
  IN IF n = -1 THEN <<s>>
     ELSE <<SubSeq(s, 1, n)>> \o splitOn(SubSeq(s, n + 2, Len(s)), ch)

split(s) == splitOn(s, NL)

\* Array.prototype.join('\n')
RECURSIVE join(_)
join(ls) ==
  IF Len(ls) = 0 THEN <<>>
  ELSE IF Len(ls) = 1 THEN ls[1]
  ELSE ls[1] \o <<NL>> \o join(Tail(ls))

\* value of a string of digits
RECURSIVE DecimalValue(_)
DecimalValue(ds) ==
  IF Len(ds) = 0 THEN 0
  ELSE 10 * DecimalValue(SubSeq(ds, 1, Len(ds) - 1)) + DigitValue(ds[Len(ds)])

\* the longest run of digits of s that starts at position i (1-based)
RECURSIVE DigitRunEnd(_, _)
DigitRunEnd(s, i) ==
  IF i > Len(s) \/ ~IsDigit(s[i]) THEN i - 1 ELSE DigitRunEnd(s, i + 1)
DigitPrefix(s) == SubSeq(s, 1, DigitRunEnd(s, 1))

\* leading whitespace is skipped, the longest numeric prefix is converted,
\* and the result is NaN if there is none (the input alphabet has no sign,
\* decimal point or exponent)
StrToNumber(s) ==
  LET ds == DigitPrefix(SubSeq(s, FirstInk(s, 1), Len(s)))
  IN IF Len(ds) = 0 THEN NaN ELSE DecimalValue(ds)

parseFloat(s) == StrToNumber(s)
parseInt(s) == StrToNumber(s)
isNaN_never(v) == FALSE
isNaN(v) == v = NaN

\* ------------------------------------------------------------------------
\* Points, percentages
\* ------------------------------------------------------------------------
Point(x, y, z, r, g, b) == [x |-> x, y |-> y, z |-> z, r |-> r, g |-> g, b |-> b]

\* a percentage n/d; NoPct stands for "onProgress was never called"
Pct(n, d) == <<n, d>>
NoPct == <<-1, 1>>
PctLE(a, b) == a[1] * b[2] <= b[1] * a[2]
PctEq(a, b) == a[1] * b[2] = b[1] * a[2]

ELEMENT_VERTEX == <<"e","l","e","m","e","n","t"," ","v","e","r","t","e","x">>
END_HEADER == <<"e","n","d","_","h","e","a","d","e","r">>

\* ------------------------------------------------------------------------
\* Header scanner (plyLoader.ts:115-134, also part_001:41-52)
\* ------------------------------------------------------------------------
\* line.match(/element vertex (\d+)/): the leftmost place where the pattern
\* matches; the group takes every digit that follows.  -1 is "no match".
matchVertexCount(line) ==
  LET pat == ELEMENT_VERTEX \o <<SP>>
      at == { i \in 0..(Len(line) - Len(pat) - 1) :
                /\ SubSeq(line, i + 1, i + Len(pat)) = pat
                /\ IsDigit(line[i + Len(pat) + 1]) }
  IN IF at = {} THEN -1
     ELSE LET i == CHOOSE a \in at : \A c \in at : a <= c
          IN DecimalValue(DigitPrefix(SubSeq(line, i + Len(pat) + 1, Len(line))))

declaredCount_firstWins(line, vc) ==
  IF vc = 0 /\ startsWith(line, ELEMENT_VERTEX) /\ matchVertexCount(line) # -1
  THEN matchVertexCount(line) ELSE vc

\* lines 121-126: vertexCount after the line has been looked at
declaredCount(line, vc) ==
  IF startsWith(line, ELEMENT_VERTEX) /\ matchVertexCount(line) # -1
  THEN matchVertexCount(line) ELSE vc

RECURSIVE scanHeaderFrom_noBreak(_, _, _)
scanHeaderFrom_noBreak(lines, i, vc) ==
  IF i > Len(lines) THEN [headerEnd |-> FALSE, vertexCount |-> vc, next |-> i]
  ELSE LET line == trim(lines[i])
           vc2 == declaredCount(line, vc)
       IN IF line = END_HEADER
          THEN [headerEnd |-> TRUE,
                vertexCount |-> scanHeaderFrom_noBreak(lines, i + 1, vc2).vertexCount,
                next |-> i + 1]
          ELSE scanHeaderFrom_noBreak(lines, i + 1, vc2)

\* the for loop over lines: vertexCount is overwritten by every declaration
\* line met, the loop breaks at the first line equal to end_header
RECURSIVE scanHeaderFrom(_, _, _)
scanHeaderFrom(lines, i, vc) ==
  IF i > Len(lines) THEN [headerEnd |-> FALSE, vertexCount |-> vc, next |-> i]
  ELSE LET line == trim(lines[i])
           vc2 == declaredCount(line, vc)
       IN IF line = END_HEADER
          THEN [headerEnd |-> TRUE, vertexCount |-> vc2, next |-> i + 1]
          ELSE scanHeaderFrom(lines, i + 1, vc2)

scanHeader(lines, vc) == scanHeaderFrom(lines, 1, vc)

sliceJoin_dropped(lines, from) == <<>>

\* lines.slice(i + 1).join('\n')
sliceJoin(lines, from) ==
  IF from > Len(lines) THEN <<>> ELSE join(SubSeq(lines, from, Len(lines)))

\* ------------------------------------------------------------------------
\* Record tokenizers.  Each yields a sequence of zero or one point.
\* ------------------------------------------------------------------------
\* format A, in-loop copy (plyLoader.ts:177-203)
plyParseLine(line) ==
  IF Len(line) = 0 \/ Len(line) < MIN_LINE_LENGTH THEN <<>>
  ELSE LET idx1 == indexOf(line, SP, 0) IN
       IF idx1 = -1 THEN <<>> ELSE
       LET idx2 == indexOf(line, SP, idx1 + 1) IN
       IF idx2 = -1 THEN <<>> ELSE
       LET idx3 == indexOf(line, SP, idx2 + 1) IN
       IF idx3 = -1 THEN <<>> ELSE
       LET idx4 == indexOf(line, SP, idx3 + 1) IN
       IF idx4 = -1 THEN <<>> ELSE
       LET i5 == indexOf(line, SP, idx4 + 1)
           idx5 == IF i5 = -1 THEN Len(line) ELSE i5
           x == parseFloat(substring(line, 0, idx1))
           y == parseFloat(substring(line, idx1 + 1, idx2))
           z == parseFloat(substring(line, idx2 + 1, idx3))
           r == parseInt(substring(line, idx3 + 1, idx4))
           g == parseInt(substring(line, idx4 + 1, idx5))
           b == parseInt(substringFrom(line, idx5 + 1))
       IN IF ~isNaN(x) /\ ~isNaN(y) /\ ~isNaN(z)
          THEN <<Point(x, y, z, r, g, b)>> ELSE <<>>

\* format A, copy for the residual line (plyLoader.ts:223-251); the guard
\* pointIndex < vertexCount of line 224 is applied by the caller
plyParseTail(buf) ==
  LET lastLine == trim(buf) IN
  IF Len(lastLine) = 0 \/ Len(lastLine) < MIN_LINE_LENGTH THEN <<>>
  ELSE LET idx1 == indexOf(lastLine, SP, 0) IN
       IF idx1 = -1 THEN <<>> ELSE
       LET idx2 == indexOf(lastLine, SP, idx1 + 1) IN
       IF idx2 = -1 THEN <<>> ELSE
       LET idx3 == indexOf(lastLine, SP, idx2 + 1) IN
       IF idx3 = -1 THEN <<>> ELSE
       LET idx4 == indexOf(lastLine, SP, idx3 + 1) IN
       IF idx4 = -1 THEN <<>> ELSE
       LET i5 == indexOf(lastLine, SP, idx4 + 1)
           idx5 == IF i5 = -1 THEN Len(lastLine) ELSE i5
           x == parseFloat(substring(lastLine, 0, idx1))
           y == parseFloat(substring(lastLine, idx1 + 1, idx2))
           z == parseFloat(substring(lastLine, idx2 + 1, idx3))
           r == parseInt(substring(lastLine, idx3 + 1, idx4))
           g == parseInt(substring(lastLine, idx4 + 1, idx5))
           b == parseInt(substringFrom(lastLine, idx5 + 1))
       IN IF ~isNaN(x) /\ ~isNaN(y) /\ ~isNaN(z)
          THEN <<Point(x, y, z, r, g, b)>> ELSE <<>>

\* format A in the worker (part_001:65-90): no minimum length
workerParseLine(line) ==
  IF Len(line) = 0 \/ trim(line) = <<>> THEN <<>>
  ELSE LET spaceIndex1 == indexOf(line, SP, 0) IN
       IF spaceIndex1 = -1 THEN <<>> ELSE
       LET spaceIndex2 == indexOf(line, SP, spaceIndex1 + 1) IN
       IF spaceIndex2 = -1 THEN <<>> ELSE
       LET spaceIndex3 == indexOf(line, SP, spaceIndex2 + 1) IN
       IF spaceIndex3 = -1 THEN <<>> ELSE
       LET spaceIndex4 == indexOf(line, SP, spaceIndex3 + 1) IN
       IF spaceIndex4 = -1 THEN <<>> ELSE
       LET i5 == indexOf(line, SP, spaceIndex4 + 1)
           spaceIndex5 == IF i5 = -1 THEN Len(line) ELSE i5
           x == parseFloat(substring(line, 0, spaceIndex1))
           y == parseFloat(substring(line, spaceIndex1 + 1, spaceIndex2))
           z == parseFloat(substring(line, spaceIndex2 + 1, spaceIndex3))
           r == parseInt(substring(line, spaceIndex3 + 1, spaceIndex4))
           g == parseInt(substring(line, spaceIndex4 + 1, spaceIndex5))
           b == parseInt(substringFrom(line, spaceIndex5 + 1))
       IN IF ~isNaN(x) /\ ~isNaN(y) /\ ~isNaN(z)
          THEN <<Point(x, y, z, r, g, b)>> ELSE <<>>

\* whether the worker's loop body reaches the progress check of line 93 for
\* this line (every `continue` of lines 66-76 jumps over it)
workerReachesReport(line) ==
  /\ Len(line) # 0 /\ trim(line) # <<>>
  /\ LET s1 == indexOf(line, SP, 0) IN s1 # -1 /\
     LET s2 == indexOf(line, SP, s1 + 1) IN s2 # -1 /\
     LET s3 == indexOf(line, SP, s2 + 1) IN s3 # -1 /\
     indexOf(line, SP, s3 + 1) # -1

\* line.split(/\s+/) of a trimmed, non-empty line: the maximal runs of
\* non-whitespace characters
RECURSIVE splitWhitespace(_)
splitWhitespace(s) ==
  IF s = <<>> THEN <<>>
  ELSE IF IsWhitespace(s[1]) THEN splitWhitespace(Tail(s))
  ELSE LET stops == { i \in 1..Len(s) : IsWhitespace(s[i]) }
           e == IF stops = {} THEN Len(s) + 1
                ELSE CHOOSE i \in stops : \A j \in stops : i <= j
       IN <<SubSeq(s, 1, e - 1)>> \o splitWhitespace(SubSeq(s, e, Len(s)))

\* format A in loadPLYFileSimple (plyLoader.ts:309-324): fields separated by
\* runs of whitespace, at least six of them
simpleParseLine(rawLine) ==
  LET line == trim(rawLine)
  IN IF line = <<>> THEN <<>>
     ELSE LET parts == splitWhitespace(line)
          IN IF Len(parts) >= 6
             THEN LET x == parseFloat(parts[1])
                      y == parseFloat(parts[2])
                      z == parseFloat(parts[3])
                      r == parseInt(parts[4])
                      g == parseInt(parts[5])
                      b == parseInt(parts[6])
                  IN IF ~isNaN(x) /\ ~isNaN(y) /\ ~isNaN(z)
                     THEN <<Point(x, y, z, r, g, b)>> ELSE <<>>
             ELSE <<>>

\* format A in loadPLYFileOptimized (part_001:189-214)
optimizedParseLine(line) ==
  IF Len(line) = 0 \/ Len(line) < MIN_LINE_LENGTH THEN <<>>
  ELSE LET idx1 == indexOf(line, SP, 0) IN
       IF idx1 = -1 THEN <<>> ELSE
       LET idx2 == indexOf(line, SP, idx1 + 1) IN
       IF idx2 = -1 THEN <<>> ELSE
       LET idx3 == indexOf(line, SP, idx2 + 1) IN
       IF idx3 = -1 THEN <<>> ELSE
       LET idx4 == indexOf(line, SP, idx3 + 1) IN
       IF idx4 = -1 THEN <<>> ELSE
       LET i5 == indexOf(line, SP, idx4 + 1)
           idx5 == IF i5 = -1 THEN Len(line) ELSE i5
           x == parseFloat(substring(line, 0, idx1))
           y == parseFloat(substring(line, idx1 + 1, idx2))
           z == parseFloat(substring(line, idx2 + 1, idx3))
           r == parseInt(substring(line, idx3 + 1, idx4))
           g == parseInt(substring(line, idx4 + 1, idx5))
           b == parseInt(substringFrom(line, idx5 + 1))
       IN IF ~isNaN(x) /\ ~isNaN(y) /\ ~isNaN(z)
          THEN <<Point(x, y, z, r, g, b)>> ELSE <<>>

\* whether the loop body of loadPLYFileOptimized reaches the progress check
\* of part_001:217 for this line (every `continue` of 190-200 jumps over it)
optimizedReachesYield(line) ==
  /\ Len(line) # 0 /\ Len(line) >= MIN_LINE_LENGTH
  /\ LET s1 == indexOf(line, SP, 0) IN s1 # -1 /\
     LET s2 == indexOf(line, SP, s1 + 1) IN s2 # -1 /\
     LET s3 == indexOf(line, SP, s2 + 1) IN s3 # -1 /\
     indexOf(line, SP, s3 + 1) # -1

orWhite_kept(c) == c

\* color fallback of format B (txtLoader.ts:97-99)
orWhite(c) == IF isNaN(c) THEN 255 ELSE c

\* format B, in-loop copy (txtLoader.ts:46-101)
txtParseLine(line) ==
  IF Len(line) = 0 \/ Len(line) < MIN_LINE_LENGTH THEN <<>>
  ELSE IF startsWith(trim(line), <<"#">>) THEN <<>>
  ELSE LET idx1 == indexOf(line, SP, 0) IN
       IF idx1 = -1 THEN <<>> ELSE
       LET idx2 == indexOf(line, SP, idx1 + 1) IN
       IF idx2 = -1 THEN <<>> ELSE
       LET idx3 == indexOf(line, SP, idx2 + 1)
           x == parseFloat(substring(line, 0, idx1))
           y == parseFloat(substring(line, idx1 + 1, idx2))
       IN
       IF idx3 = -1
       THEN LET z == parseFloat(substringFrom(line, idx2 + 1))
            IN IF ~isNaN(x) /\ ~isNaN(y) /\ ~isNaN(z)
               THEN <<Point(x, y, z, 255, 255, 255)>> ELSE <<>>
       ELSE
       LET idx4 == indexOf(line, SP, idx3 + 1)
           z == parseFloat(substring(line, idx2 + 1, idx3))
       IN
       IF idx4 = -1
       THEN IF ~isNaN(x) /\ ~isNaN(y) /\ ~isNaN(z)
            THEN <<Point(x, y, z, 255, 255, 255)>> ELSE <<>>
       ELSE
       LET i5 == indexOf(line, SP, idx4 + 1)
           idx5 == IF i5 = -1 THEN Len(line) ELSE i5
           r == parseInt(substring(line, idx3 + 1, idx4))
           g == parseInt(substring(line, idx4 + 1, idx5))
           b == parseInt(substringFrom(line, idx5 + 1))
       IN IF ~isNaN(x) /\ ~isNaN(y) /\ ~isNaN(z)
          THEN <<Point(x, y, z, orWhite(r), orWhite(g), orWhite(b))>>
          ELSE <<>>

\* format B, copy for the residual line (txtLoader.ts:120-154)
txtParseTail(buf) ==
  LET lastLine == trim(buf) IN
  IF Len(lastLine) = 0 \/ Len(lastLine) < MIN_LINE_LENGTH
     \/ startsWith(lastLine, <<"#">>) THEN <<>>
  ELSE LET idx1 == indexOf(lastLine, SP, 0) IN
       IF idx1 = -1 THEN <<>> ELSE
       LET idx2 == indexOf(lastLine, SP, idx1 + 1) IN
       IF idx2 = -1 THEN <<>> ELSE
       LET idx3 == indexOf(lastLine, SP, idx2 + 1) IN
       IF idx3 = -1 THEN <<>> ELSE
       LET idx4 == indexOf(lastLine, SP, idx3 + 1) IN
       IF idx4 = -1 THEN <<>> ELSE
       LET i5 == indexOf(lastLine, SP, idx4 + 1)
           idx5 == IF i5 = -1 THEN Len(lastLine) ELSE i5
           x == parseFloat(substring(lastLine, 0, idx1))
           y == parseFloat(substring(lastLine, idx1 + 1, idx2))
           z == parseFloat(substring(lastLine, idx2 + 1, idx3))
           r == parseInt(substring(lastLine, idx3 + 1, idx4))
           g == parseInt(substring(lastLine, idx4 + 1, idx5))
           b == parseInt(substringFrom(lastLine, idx5 + 1))
       IN IF ~isNaN(x) /\ ~isNaN(y) /\ ~isNaN(z)
          THEN <<Point(x, y, z, orWhite(r), orWhite(g), orWhite(b))>>
          ELSE <<>>

\* ------------------------------------------------------------------------
\* Input texts
\* ------------------------------------------------------------------------
\* 1 2 3 4 5 6: six numeric fields
GOOD1 == <<"1"," ","2"," ","3"," ","4"," ","5"," ","6">>
\* 4 5 6 7 8 9: six numeric fields, another point
GOOD2 == <<"4"," ","5"," ","6"," ","7"," ","8"," ","9">>
\* 1 2 3: three fields, shorter than MIN_LINE_LENGTH
SHORT3 == <<"1"," ","2"," ","3">>
\* 1 2 3 4 5: five fields, shorter than MIN_LINE_LENGTH
SHORT5 == <<"1"," ","2"," ","3"," ","4"," ","5">>
\* 10 20 30 4 5: five fields
FIVE == <<"1","0"," ","2","0"," ","3","0"," ","4"," ","5">>
\* 1 2 3 x 5 6: six fields, r is not a number
BADR == <<"1"," ","2"," ","3"," ","x"," ","5"," ","6">>
\* 1 2 3 4 5 x: six fields, b is not a number
BADB == <<"1"," ","2"," ","3"," ","4"," ","5"," ","x">>
\* x 2 3 4 5 6: six fields, x is not a number
BADX == <<"x"," ","2"," ","3"," ","4"," ","5"," ","6">>
\* 1 2 z 4 5 6: six fields, z is not a number
BADZ == <<"1"," ","2"," ","z"," ","4"," ","5"," ","6">>
\* 100 200 300: three fields, long enough
THREE == <<"1","0","0"," ","2","0","0"," ","3","0","0">>
\* # 1 2 3 4 5 6: a comment line
COMMENT == <<"#"," ","1"," ","2"," ","3"," ","4"," ","5"," ","6">>
\* element vertex 1\nend_header\n: declares 1 vertex
HEADER1 == <<"e","l","e","m","e","n","t"," ","v","e","r","t","e","x"," ","1","\n","e","n","d","_","h","e","a","d","e","r","\n">>
\* element vertex 2\nend_header\n: declares 2 vertices
HEADER2 == <<"e","l","e","m","e","n","t"," ","v","e","r","t","e","x"," ","2","\n","e","n","d","_","h","e","a","d","e","r","\n">>
\* element vertex 1\nelement vertex 2\nend_header\n: two declarations
HEADER12 == <<"e","l","e","m","e","n","t"," ","v","e","r","t","e","x"," ","1","\n">> \o HEADER2
\* element vertex 2\nelement vertex 1\nend_header\n: two declarations
HEADER21 == <<"e","l","e","m","e","n","t"," ","v","e","r","t","e","x"," ","2","\n">> \o HEADER1
\* element vertex 2\nend_header\n1 2 3 255 0 0\n4 5 6 0 255 0\n
END_TO_END == HEADER2 \o <<"1"," ","2"," ","3"," ","2","5","5"," ","0"," ","0","\n","4"," ","5"," ","6"," ","0"," ","2","5","5"," ","0","\n">>
\* 1 2 3 4 5 6\n4 5 6 7 8 9\n1 2 3 4 5 6\n: more records than one batch
THREE_RECORDS == GOOD1 \o <<NL>> \o GOOD2 \o <<NL>> \o GOOD1 \o <<NL>>
\* x 2 3 4 5 6\n1 2 z 4 5 6\n1 2 3 4 5 6\n: two lines without a position
BAD_COORDINATES == BADX \o <<NL>> \o BADZ \o <<NL>> \o GOOD1 \o <<NL>>
\* element vertex 1\nend_header\nelement vertex 2\nend_header\n1 2 3 4 5 6\n
\* 4 5 6 7 8 9\n: a declaration and an end_header line standing in the body
HEADER_LINES_IN_BODY ==
  HEADER1 \o HEADER2 \o GOOD1 \o <<NL>> \o GOOD2 \o <<NL>>
\* ply\nend_header\n: no declaration line
HEADER_NODECL == <<"p","l","y","\n","e","n","d","_","h","e","a","d","e","r","\n">>
\* element vertex 2\n: no end_header line
HEADER_NOEND == <<"e","l","e","m","e","n","t"," ","v","e","r","t","e","x"," ","2","\n">>
\* end_headers\n: a line that only begins with end_header
HEADER_LONGER == <<"e","n","d","_","h","e","a","d","e","r","s","\n">>

\* the line kinds tried in a body, per format
BodyLineKinds(l) == IF l = "txt"
                    THEN {GOOD1, THREE, BADR}
                    ELSE {GOOD1, GOOD2, FIVE}

\* a body: at most MaxLines lines, the last one with or without its newline
BodyLineSeqs(l) == UNION { [1..n -> BodyLineKinds(l)] : n \in 0..MaxLines }
Bodies(l) == { join(ls) \o nl : ls \in BodyLineSeqs(l), nl \in {<<>>, <<NL>>} }

Loaders == {"ply", "txt", "worker", "simple", "optimized"}

\* format B: every body, and a few texts of their own;
\* format A: a declaring header before every body; the other headers before
\* a few bodies (with them the body is never tokenized, or its count is 0, or
\* the count is the only thing that differs)
TextsFor(l) ==
  IF l = "txt"
  THEN Bodies(l) \cup {THREE_RECORDS, SHORT3 \o <<NL>>,
                       BADR \o <<NL>> \o BADB \o <<NL>>, BAD_COORDINATES,
                       COMMENT \o <<NL>>, COMMENT \o <<NL>> \o GOOD1 \o <<NL>>}
  ELSE { h \o b : h \in {HEADER1, HEADER2}, b \in Bodies(l) }
       \cup { h \o b : h \in {HEADER_NODECL, HEADER_NOEND, HEADER_LONGER},
                       b \in {<<>>, GOOD1, GOOD1 \o <<NL>>} }
       \cup {END_TO_END, HEADER2 \o BAD_COORDINATES, HEADER_LINES_IN_BODY,
             HEADER1 \o SHORT3 \o <<NL>>, HEADER1 \o SHORT5 \o <<NL>>,
             HEADER2 \o SHORT3 \o <<NL>> \o GOOD1 \o <<NL>>}
       \cup { h \o b : h \in {HEADER12, HEADER21},
                       b \in {GOOD1 \o <<NL>>,
                               GOOD1 \o <<NL>> \o GOOD2 \o <<NL>>} }

\* the content-length header: absent, exact, or smaller than what the body
\* stream delivers (a compressed transfer); the worker loader does not read it
ContentLengths(l, t) == IF l \in {"worker", "simple", "optimized"} THEN {0}
                        ELSE {0, Len(t), Len(t) \div 2}

\* ------------------------------------------------------------------------
\* State
\* ------------------------------------------------------------------------
VARIABLES
  loader,        \* which entry point was called
  text,          \* the bytes the byte source will deliver
  contentLength, \* parseInt(content-length || '0')
  onProgress,    \* whether the caller passed a callback
  pos,           \* bytes the reader has delivered so far
  done,          \* the reader has reported end of stream
  pc,            \* the await the load is suspended at, or how it settled
  buffer, headerEnd, vertexCount, loadedBytes, points,
  lastPct,       \* the percentage of the latest onProgress call
  fed,           \* the lines the body loop has handed to the tokenizer
  carried,       \* some chunk ended inside a body line (history)
  msgs,          \* worker -> caller messages not yet delivered
  workerAlive,   \* the worker exists and has not been terminated
  fetchPending,  \* the worker loader's fetch has neither delivered nor failed
  result,        \* the array the promise resolved with
  error,         \* the reason the promise rejected with
  calls,         \* how often onProgress was invoked, counted up to MaxCalls
  focus,         \* which load's continuation runs next (1 or 2)
  other          \* the locals of the second, suspended load; <<>> without one

\* the viewer component (src/src/components/PointCloudViewer.tsx) under its
\* parent (src/src/App.tsx).  A load is taken by its promise's outcome.
VARIABLES
  filePath,      \* the prop filePath of the mounted PointCloudViewer
  resetKey,      \* App's resetKey, the key of the mounted instance
  scene,         \* per instance, the Points objects in sceneRef.current
  pointsRef,     \* per instance, pointsRef.current (NoMesh for null)
  pending,       \* the loadPointCloudFile promises not yet settled
  loading,       \* the mounted instance's state loading
  viewerError,   \* the mounted instance's state error ("null" for null)
  requests       \* how many loads were started so far

viewer == <<filePath, resetKey, scene, pointsRef, pending, loading,
            viewerError, requests>>

\* everything one call of a loader holds in its own locals and closures
locals == <<loader, text, contentLength, onProgress, pos, done, pc, buffer,
            headerEnd, vertexCount, loadedBytes, points, lastPct, fed,
            carried, msgs, workerAlive, fetchPending, result, error, calls>>

vars == <<locals, focus, other, viewer>>

pointIndex == Len(points)

Settled == {"resolved", "rejected"}

\* the viewer's default prop and a second path a parent may pass
TEST_PLY == "/test.ply"
OTHER_PLY == "/other.ply"

\* pointsRef.current = null
NoMesh == [id |-> 0, file |-> "null"]

\* the promise of the n-th loadPointCloudFile call, started by instance k
Load(n, k, f) == [id |-> n, inst |-> k, file |-> f]

\* the THREE.Points object built from the array a load resolved with
pointsMesh(l) == [id |-> l.id, file |-> l.file]

\* App's first render: PointCloudViewer key 0 with filePath '/test.ply'; both
\* effects have run, the scene holds no cloud, and the first load is in flight
ViewerMounted ==
  /\ filePath = TEST_PLY
  /\ resetKey = 0
  /\ scene = [k \in {0} |-> {}]
  /\ pointsRef = [k \in {0} |-> NoMesh]
  /\ pending = {Load(1, 0, TEST_PLY)}
  /\ loading = TRUE
  /\ viewerError = "null"
  /\ requests = 1

Init ==
  /\ loader \in Loaders
  /\ text \in TextsFor(loader)
  /\ contentLength \in ContentLengths(loader, text)
  /\ onProgress \in (IF loader = "simple" THEN {FALSE}
                     ELSE IF contentLength = 0 THEN BOOLEAN ELSE {TRUE})
  /\ pos = 0
  /\ done = FALSE
  /\ pc = CASE loader = "ply" -> "ply_header"
            [] loader = "txt" -> "txt_read"
            [] loader = "worker" -> "wk_fetch"
            [] loader = "simple" -> "sp_fetch"
            [] loader = "optimized" -> "op_fetch"
  /\ buffer = <<>>
  /\ headerEnd = FALSE
  /\ vertexCount = 0
  /\ loadedBytes = 0
  /\ points = <<>>
  /\ lastPct = NoPct
  /\ fed = <<>>
  /\ carried = FALSE
  /\ msgs = <<>>
  /\ workerAlive = (loader = "worker")
  /\ fetchPending = (loader = "worker")
  /\ result = <<>>
  /\ error = "none"
  /\ calls = 0
  /\ focus = 1
  /\ other = <<>>
  /\ ViewerMounted

\* what reader.read() may deliver: 0 stands for {done: true}, k > 0 for a
\* chunk of the next k bytes.  A chunk is short (any boundary can be reached
\* by short chunks), or ends with a newline, or is the whole rest.
ReadSizes ==
  IF pos = Len(text) THEN {0}
  ELSE { k \in 1..(Len(text) - pos) :
           k <= MaxChunk \/ k = Len(text) - pos \/ text[pos + k] = NL }
Chunk(k) == SubSeq(text, pos + 1, pos + k)

\* onProgress({... percentage: p}) when a callback was passed
Emit(p, old) == IF onProgress THEN p ELSE old
\* the number of invocations after that call
Called(n) == IF onProgress /\ n < MaxCalls THEN n + 1 ELSE n

\* ------------------------------------------------------------------------
\* Line assembly shared by both body loops
\* (plyLoader.ts:166-173, txtLoader.ts:35-42)
\* ------------------------------------------------------------------------
\* what remains in lines after lines.pop()
popLast(all) == SubSeq(all, 1, Len(all) - 1)

carryOver_dropped(all) == <<>>

\* buffer = ''; lastLine = lines.pop(); if (lastLine) buffer = lastLine
carryOver(all) == all[Len(all)]

\* ------------------------------------------------------------------------
\* loadPLYFile (plyLoader.ts:88-268)
\* ------------------------------------------------------------------------
RECURSIVE plyProcessLines_offByOne(_, _, _, _)
plyProcessLines_offByOne(lines, i, pts, vc) ==
  IF i > Len(lines) \/ Len(pts) >= vc - 1 THEN [points |-> pts, next |-> i]
  ELSE plyProcessLines_offByOne(lines, i + 1,
                                pts \o plyParseLine(lines[i]), vc)

RECURSIVE plyProcessLines_noLimit(_, _, _, _)
plyProcessLines_noLimit(lines, i, pts, vc) ==
  IF i > Len(lines) THEN [points |-> pts, next |-> i]
  ELSE plyProcessLines_noLimit(lines, i + 1,
                               pts \o plyParseLine(lines[i]), vc)

\* the inner for loop of lines 176-204: it stops at the declared count
RECURSIVE plyProcessLines(_, _, _, _)
plyProcessLines(lines, i, pts, vc) ==
  IF i > Len(lines) \/ Len(pts) >= vc THEN [points |-> pts, next |-> i]
  ELSE plyProcessLines(lines, i + 1, pts \o plyParseLine(lines[i]), vc)

\* lines 222-267: the residual line, the early return, the final progress
PlyAfterLoop(buf, pts, vc, pct, n) ==
  LET pts2 == IF Len(pts) < vc THEN pts \o plyParseTail(buf) ELSE pts
  IN /\ buffer' = buf
     /\ points' = pts2
     /\ result' = pts2
     /\ lastPct' = IF Len(pts2) < vc THEN pct ELSE Emit(Pct(100, 1), pct)
     /\ calls' = IF Len(pts2) < vc THEN n ELSE Called(n)
     /\ pc' = "resolved"

PlyLoopTest_zeroFatal(buf, pts, vc, pct, n) ==
  IF vc = 0
  THEN /\ buffer' = buf
       /\ points' = pts
       /\ lastPct' = pct
       /\ calls' = n
       /\ pc' = "rejected"
       /\ UNCHANGED result
  ELSE IF Len(pts) < vc
  THEN /\ buffer' = buf
       /\ points' = pts
       /\ lastPct' = pct
       /\ calls' = n
       /\ pc' = "ply_body"
       /\ UNCHANGED result
  ELSE PlyAfterLoop(buf, pts, vc, pct, n)

\* line 156: the test of the while loop
PlyLoopTest(buf, pts, vc, pct, n) ==
  IF Len(pts) < vc
  THEN /\ buffer' = buf
       /\ points' = pts
       /\ lastPct' = pct
       /\ calls' = n
       /\ pc' = "ply_body"
       /\ UNCHANGED result
  ELSE PlyAfterLoop(buf, pts, vc, pct, n)

\* lines 108-148: one turn of the header loop, resumed by reader.read()
PlyHeaderRead ==
  /\ pc = "ply_header"
  /\ \E k \in ReadSizes :
       IF k = 0
       THEN /\ done' = TRUE
            /\ pc' = "rejected"
            /\ error' = "end_header not found"
            /\ UNCHANGED <<pos, buffer, headerEnd, vertexCount, loadedBytes,
                           points, lastPct, calls, result>>
       ELSE LET buf == buffer \o Chunk(k)
                lines == split(buf)
                s == scanHeader(lines, vertexCount)
                loaded == loadedBytes + k
                pct == IF contentLength > 0
                       THEN Emit(IF loaded >= contentLength THEN Pct(50, 1)
                                 ELSE Pct(loaded * 50, contentLength), lastPct)
                       ELSE lastPct
                n == IF contentLength > 0 THEN Called(calls) ELSE calls
            IN /\ pos' = pos + k
               /\ done' = FALSE
               /\ loadedBytes' = loaded
               /\ headerEnd' = s.headerEnd
               /\ vertexCount' = s.vertexCount
               /\ error' = error
               /\ IF s.headerEnd
                  THEN PlyLoopTest(sliceJoin(lines, s.next), <<>>,
                                   s.vertexCount, pct, n)
                  ELSE /\ buffer' = buf
                       /\ lastPct' = pct
                       /\ calls' = n
                       /\ pc' = "ply_header"
                       /\ UNCHANGED <<points, result>>
  /\ UNCHANGED <<focus, other, viewer>>
  /\ UNCHANGED <<loader, text, contentLength, onProgress, fetchPending, carried, fed, msgs,
                 workerAlive>>

\* lines 156-208: one turn of the body loop, resumed by reader.read(), up to
\* the setTimeout of line 208 or the next read
PlyBodyRead ==
  /\ pc = "ply_body"
  /\ \E k \in ReadSizes :
       /\ done' = (k = 0)
       /\ pos' = pos + k
       /\ IF k = 0 /\ buffer = <<>>
          THEN /\ PlyAfterLoop(buffer, points, vertexCount, lastPct, calls)
               /\ UNCHANGED <<loadedBytes, fed, carried>>
          ELSE LET buf == buffer \o Chunk(k)
                   all == split(buf)
                   lastLine == carryOver(all)
                   lines == popLast(all)
                   p == plyProcessLines(lines, 1, points, vertexCount)
               IN /\ loadedBytes' = loadedBytes + k
                  /\ carried' = (carried \/ (k > 0 /\ lastLine # <<>>))
                  /\ fed' = fed \o SubSeq(lines, 1, p.next - 1)
                  /\ IF Len(p.points) % BATCH_SIZE = 0
                     THEN /\ buffer' = lastLine
                          /\ points' = p.points
                          /\ pc' = "ply_yield"
                          /\ UNCHANGED <<lastPct, calls, result>>
                     ELSE PlyLoopTest(lastLine, p.points, vertexCount, lastPct,
                                      calls)
  /\ UNCHANGED <<focus, other, viewer>>
  /\ UNCHANGED <<loader, text, contentLength, onProgress, fetchPending, headerEnd,
                 vertexCount, msgs, workerAlive, error>>

PlyYield_noOffset ==
  /\ pc = "ply_yield"
  /\ PlyLoopTest(buffer, points, vertexCount,
                 IF contentLength > 0
                 THEN Emit(Pct(100 * pointIndex, vertexCount), lastPct)
                 ELSE lastPct,
                 IF contentLength > 0 THEN Called(calls) ELSE calls)
  /\ UNCHANGED <<focus, other, viewer>>
  /\ UNCHANGED <<loader, text, contentLength, onProgress, fetchPending, carried, pos, done, headerEnd,
                 vertexCount, loadedBytes, fed, msgs, workerAlive, error>>

\* lines 208-220: after the timer, the body progress and the loop test
PlyYield ==
  /\ pc = "ply_yield"
  /\ PlyLoopTest(buffer, points, vertexCount,
                 IF contentLength > 0
                 THEN Emit(Pct(50 * vertexCount + 50 * pointIndex, vertexCount),
                           lastPct)
                 ELSE lastPct,
                 IF contentLength > 0 THEN Called(calls) ELSE calls)
  /\ UNCHANGED <<focus, other, viewer>>
  /\ UNCHANGED <<loader, text, contentLength, onProgress, fetchPending, carried, pos, done, headerEnd,
                 vertexCount, loadedBytes, fed, msgs, workerAlive, error>>

\* ------------------------------------------------------------------------
\* loadTXTFile (txtLoader.ts:5-166)
\* ------------------------------------------------------------------------
RECURSIVE txtProcessLines_unshift(_, _, _)
txtProcessLines_unshift(lines, i, pts) ==
  IF i > Len(lines) THEN pts
  ELSE txtProcessLines_unshift(lines, i + 1, txtParseLine(lines[i]) \o pts)

\* the inner for loop of lines 45-102
RECURSIVE txtProcessLines(_, _, _)
txtProcessLines(lines, i, pts) ==
  IF i > Len(lines) THEN pts
  ELSE txtProcessLines(lines, i + 1, pts \o txtParseLine(lines[i]))

\* lines 119-165: the residual line, the final progress, the return
TxtAfterLoop(buf, pts, pct, n) ==
  LET pts2 == pts \o txtParseTail(buf)
  IN /\ buffer' = buf
     /\ points' = pts2
     /\ result' = pts2
     /\ lastPct' = Emit(Pct(100, 1), pct)
     /\ calls' = Called(n)
     /\ pc' = "resolved"

\* lines 25-106: one turn of the read loop, resumed by reader.read()
TxtRead ==
  /\ pc = "txt_read"
  /\ \E k \in ReadSizes :
       /\ done' = (k = 0)
       /\ pos' = pos + k
       /\ IF k = 0 /\ buffer = <<>>
          THEN /\ TxtAfterLoop(buffer, points, lastPct, calls)
               /\ UNCHANGED <<loadedBytes, fed, carried>>
          ELSE LET buf == buffer \o Chunk(k)
                   all == split(buf)
                   lastLine == carryOver(all)
                   lines == popLast(all)
                   pts2 == txtProcessLines(lines, 1, points)
               IN /\ loadedBytes' = loadedBytes + k
                  /\ carried' = (carried \/ (k > 0 /\ lastLine # <<>>))
                  /\ fed' = fed \o lines
                  /\ buffer' = lastLine
                  /\ points' = pts2
                  /\ pc' = IF Len(pts2) % BATCH_SIZE = 0
                           THEN "txt_yield" ELSE "txt_read"
                  /\ UNCHANGED <<lastPct, calls, result>>
  /\ UNCHANGED <<focus, other, viewer>>
  /\ UNCHANGED <<loader, text, contentLength, onProgress, fetchPending, headerEnd,
                 vertexCount, msgs, workerAlive, error>>

\* lines 106-117: after the timer, the progress; then the loop goes on
TxtYield ==
  /\ pc = "txt_yield"
  /\ lastPct' = IF contentLength > 0
                THEN Emit(Pct(loadedBytes * 100, contentLength), lastPct)
                ELSE lastPct
  /\ calls' = IF contentLength > 0 THEN Called(calls) ELSE calls
  /\ pc' = "txt_read"
  /\ UNCHANGED <<focus, other, viewer>>
  /\ UNCHANGED <<loader, text, contentLength, onProgress, fetchPending, carried, pos, done, buffer,
                 headerEnd, vertexCount, loadedBytes, points, fed, msgs,
                 workerAlive, result, error>>

\* ------------------------------------------------------------------------
\* loadPLYFileWithWorker (part_001:22-151)
\* ------------------------------------------------------------------------
Msg(kind, pct, pts, reason) ==
  [kind |-> kind, pct |-> pct, points |-> pts, error |-> reason]

\* part_001:64-102: the parse loop; out collects the progress messages
RECURSIVE workerLoop(_, _, _, _, _)
workerLoop(lines, i, pts, vc, out) ==
  IF i > Len(lines) \/ Len(pts) >= vc THEN [points |-> pts, out |-> out]
  ELSE LET pts2 == pts \o workerParseLine(lines[i])
           out2 == IF workerReachesReport(lines[i])
                      /\ Len(pts2) % WORKER_REPORT = 0
                   THEN Append(out, Msg("progress", Pct(Len(pts2) * 100, vc),
                                        <<>>, "none"))
                   ELSE out
       IN workerLoop(lines, i + 1, pts2, vc, out2)

\* part_001:30-108: everything the worker posts for one 'parse' message
workerOnMessage(t) ==
  LET lines == split(t)
      s == scanHeader(lines, 0)
  IN IF ~s.headerEnd
     THEN <<Msg("error", NoPct, <<>>, "end_header not found")>>
     ELSE LET w == workerLoop(lines, s.next, <<>>, s.vertexCount, <<>>)
          IN Append(w.out, Msg("complete", NoPct, w.points, "none"))

\* resolve(...) and reject(...) of the promise of part_001:26: the first call
\* settles it, a later call changes nothing
settle(how) == IF pc \in Settled THEN pc ELSE how
rejectWith(reason) == IF pc \in Settled THEN error ELSE reason

\* part_001:116-121: the text arrives and is posted to the worker (a message
\* posted to a terminated worker is dropped)
WkFetch ==
  /\ fetchPending
  /\ fetchPending' = FALSE
  /\ pos' = Len(text)
  /\ pc' = IF workerAlive THEN "wk_parse" ELSE pc
  /\ UNCHANGED <<focus, other, viewer>>
  /\ UNCHANGED <<loader, text, contentLength, onProgress, carried, done, buffer,
                 headerEnd, vertexCount, loadedBytes, points, lastPct, calls,
                 fed, msgs, workerAlive, result, error>>

\* part_001:122-125: fetch or response.text() fails
WkFetchFail ==
  /\ fetchPending
  /\ fetchPending' = FALSE
  /\ workerAlive' = FALSE
  /\ pc' = settle("rejected")
  /\ error' = rejectWith("fetch failed")
  /\ UNCHANGED <<focus, other, viewer>>
  /\ UNCHANGED <<loader, text, contentLength, onProgress, carried, pos, done,
                 buffer, headerEnd, vertexCount, loadedBytes, points, lastPct,
                 calls, fed, msgs, result>>

\* the worker handles the 'parse' message
WkParse ==
  /\ pc = "wk_parse"
  /\ workerAlive
  /\ msgs' = workerOnMessage(text)
  /\ pc' = "wk_msgs"
  /\ UNCHANGED <<focus, other, viewer>>
  /\ UNCHANGED <<loader, text, contentLength, onProgress, fetchPending, carried,
                 pos, done, buffer, headerEnd, vertexCount, loadedBytes, points,
                 lastPct, calls, fed, workerAlive, result, error>>

\* part_001:127-143: worker.onmessage on the caller's side
WkOnMessage ==
  /\ pc = "wk_msgs"
  /\ workerAlive
  /\ msgs # <<>>
  /\ LET m == Head(msgs)
     IN /\ msgs' = Tail(msgs)
        /\ IF m.kind = "error"
           THEN /\ workerAlive' = FALSE
                /\ pc' = settle("rejected")
                /\ error' = rejectWith(m.error)
                /\ UNCHANGED <<lastPct, calls, result>>
           ELSE /\ lastPct' = IF m.kind = "progress"
                              THEN Emit(m.pct, lastPct) ELSE lastPct
                /\ calls' = IF m.kind = "progress"
                            THEN Called(calls) ELSE calls
                /\ IF m.kind = "complete"
                   THEN /\ workerAlive' = FALSE
                        /\ result' = m.points
                        /\ pc' = settle("resolved")
                   ELSE UNCHANGED <<workerAlive, result, pc>>
                /\ UNCHANGED error
  /\ UNCHANGED <<focus, other, viewer>>
  /\ UNCHANGED <<loader, text, contentLength, onProgress, fetchPending, carried,
                 pos, done, buffer, headerEnd, vertexCount, loadedBytes, points,
                 fed>>

WkOnError_noTerminate ==
  /\ workerAlive
  /\ pc \in {"wk_fetch", "wk_parse"}
  /\ pc' = settle("rejected")
  /\ error' = rejectWith("worker error")
  /\ UNCHANGED <<focus, other, viewer>>
  /\ UNCHANGED <<loader, text, contentLength, onProgress, fetchPending, carried,
                 pos, done, buffer, headerEnd, vertexCount, loadedBytes, points,
                 lastPct, calls, fed, msgs, workerAlive, result>>

\* part_001:145-149: worker.onerror, for an error the worker raises before it
\* has posted anything (it fails to start, or its handler throws, as
\* new Array(vertexCount) does for a count above 2^32 - 1)
WkOnError ==
  /\ workerAlive
  /\ pc \in {"wk_fetch", "wk_parse"}
  /\ workerAlive' = FALSE
  /\ pc' = settle("rejected")
  /\ error' = rejectWith("worker error")
  /\ UNCHANGED <<focus, other, viewer>>
  /\ UNCHANGED <<loader, text, contentLength, onProgress, fetchPending, carried,
                 pos, done, buffer, headerEnd, vertexCount, loadedBytes, points,
                 lastPct, calls, fed, msgs, result>>

\* ------------------------------------------------------------------------
\* loadPLYFileSimple (plyLoader.ts:271-329)
\* ------------------------------------------------------------------------
\* lines 308-326: the loop over the body lines, up to the declared count
RECURSIVE simpleProcessLines(_, _, _, _)
simpleProcessLines(lines, i, pts, vc) ==
  IF i > Len(lines) \/ Len(pts) >= vc THEN pts
  ELSE simpleProcessLines(lines, i + 1, pts \o simpleParseLine(lines[i]), vc)

\* the whole function on the text t: whether it returns, and what
loadPLYFileSimple(t) ==
  LET lines == split(t)
      s == scanHeader(lines, 0)
  IN [headerEnd |-> s.headerEnd,
      vertexCount |-> s.vertexCount,
      points |-> IF s.headerEnd
                 THEN simpleProcessLines(lines, s.next, <<>>, s.vertexCount)
                 ELSE <<>>]

\* the text has arrived: the function runs to its return or throw
SimpleLoad ==
  /\ pc = "sp_fetch"
  /\ LET r == loadPLYFileSimple(text)
     IN /\ pos' = Len(text)
        /\ headerEnd' = r.headerEnd
        /\ vertexCount' = r.vertexCount
        /\ points' = r.points
        /\ result' = r.points
        /\ pc' = IF r.headerEnd THEN "resolved" ELSE "rejected"
        /\ error' = IF r.headerEnd THEN error ELSE "end_header not found"
  /\ UNCHANGED <<focus, other, viewer>>
  /\ UNCHANGED <<loader, text, contentLength, onProgress, fetchPending, carried,
                 done, buffer, loadedBytes, lastPct, calls, fed, msgs,
                 workerAlive>>

\* ------------------------------------------------------------------------
\* loadPLYFileOptimized (part_001:154-241)
\* ------------------------------------------------------------------------
\* part_001:161-176: the header scan; dataStartIndex stays 0 when no line
\* equals end_header (as a 1-based index of lines: 1)
optimizedHeader(lines) ==
  LET s == scanHeader(lines, 0)
  IN [vertexCount |-> s.vertexCount,
      dataStartIndex |-> IF s.headerEnd THEN s.next ELSE 1]

\* part_001:188-228: the loop from line i on, up to the next setTimeout
RECURSIVE optimizedRun(_, _, _, _)
optimizedRun(lines, i, pts, vc) ==
  IF i > Len(lines) \/ Len(pts) >= vc
  THEN [points |-> pts, next |-> i, yield |-> FALSE]
  ELSE LET pts2 == pts \o optimizedParseLine(lines[i])
       IN IF /\ optimizedReachesYield(lines[i])
             /\ Len(pts2) % BATCH_SIZE = 0
             /\ onProgress
          THEN [points |-> pts2, next |-> i + 1, yield |-> TRUE]
          ELSE optimizedRun(lines, i + 1, pts2, vc)

\* the loop has run up to a setTimeout, or to its end, the final progress
\* (part_001:230-240) and the return
OptimizedAfterRun(r, pct, n) ==
  /\ points' = r.points
  /\ IF r.yield
     THEN /\ pc' = "op_yield"
          /\ lastPct' = pct
          /\ calls' = n
          /\ UNCHANGED result
     ELSE /\ pc' = "resolved"
          /\ lastPct' = Emit(Pct(100, 1), pct)
          /\ calls' = Called(n)
          /\ result' = r.points

\* the text has arrived: the header scan, the throw for a count of 0, the
\* loop up to its first setTimeout
OptimizedStart ==
  /\ pc = "op_fetch"
  /\ LET lines == split(text)
         h == optimizedHeader(lines)
         r == optimizedRun(lines, h.dataStartIndex, <<>>, h.vertexCount)
     IN /\ pos' = Len(text)
        /\ vertexCount' = h.vertexCount
        /\ IF h.vertexCount = 0
           THEN /\ pc' = "rejected"
                /\ error' = "vertex count not found"
                /\ UNCHANGED <<points, lastPct, calls, result, fed>>
           ELSE /\ fed' = SubSeq(lines, h.dataStartIndex, r.next - 1)
                /\ OptimizedAfterRun(r, lastPct, calls)
                /\ UNCHANGED error
  /\ UNCHANGED <<focus, other, viewer>>
  /\ UNCHANGED <<loader, text, contentLength, onProgress, fetchPending, carried,
                 done, buffer, headerEnd, loadedBytes, msgs, workerAlive>>

\* part_001:217-227: after the timer, the progress; then the loop goes on
OptimizedYield ==
  /\ pc = "op_yield"
  /\ LET lines == split(text)
         h == optimizedHeader(lines)
         i == h.dataStartIndex + Len(fed)
         r == optimizedRun(lines, i, points, vertexCount)
     IN /\ fed' = fed \o SubSeq(lines, i, r.next - 1)
        /\ OptimizedAfterRun(r, Emit(Pct(100 * pointIndex, vertexCount), lastPct),
                             Called(calls))
  /\ UNCHANGED <<focus, other, viewer>>
  /\ UNCHANGED <<loader, text, contentLength, onProgress, fetchPending, carried,
                 pos, done, buffer, headerEnd, vertexCount, loadedBytes, msgs,
                 workerAlive, error>>

Next ==
  \/ PlyHeaderRead
  \/ PlyBodyRead
  \/ PlyYield
  \/ TxtRead
  \/ TxtYield
  \/ WkFetch
  \/ WkFetchFail
  \/ WkParse
  \/ WkOnMessage
  \/ WkOnError
  \/ SimpleLoad
  \/ OptimizedStart
  \/ OptimizedYield

Spec == Init /\ [][Next]_vars

\* ------------------------------------------------------------------------
\* A byte source that can fail (plyLoader.ts:92-110, txtLoader.ts:9-27)
\* ------------------------------------------------------------------------
\* the errors a failing source raises: the Error thrown for a response
\* without body, and whatever reader.read() rejects with
NO_BODY == "no readable stream"
READ_FAILED == "read failed"

\* plyLoader.ts:94-96, txtLoader.ts:11-13: response.body is null, the throw
\* rejects the promise before anything is read
NoReadableBody ==
  /\ pc \in {"ply_header", "txt_read"}
  /\ pos = 0 /\ ~done
  /\ pc' = "rejected"
  /\ error' = NO_BODY
  /\ UNCHANGED <<focus, other, viewer>>
  /\ UNCHANGED <<loader, text, contentLength, onProgress, fetchPending, carried,
                 pos, done, buffer, headerEnd, vertexCount, loadedBytes, points,
                 lastPct, calls, fed, msgs, workerAlive, result>>

ReaderFails_returnsPartial ==
  /\ pc \in {"ply_header", "ply_body", "txt_read"}
  /\ ~done
  /\ pc' = "resolved"
  /\ error' = READ_FAILED
  /\ result' = points
  /\ UNCHANGED <<focus, other, viewer>>
  /\ UNCHANGED <<loader, text, contentLength, onProgress, fetchPending, carried,
                 pos, done, buffer, headerEnd, vertexCount, loadedBytes, points,
                 lastPct, calls, fed, msgs, workerAlive>>

\* plyLoader.ts:109, 157, txtLoader.ts:26: await reader.read() rejects; no
\* try/catch encloses the loops, so the rejection leaves the async function
ReaderFails ==
  /\ pc \in {"ply_header", "ply_body", "txt_read"}
  /\ ~done
  /\ pc' = "rejected"
  /\ error' = READ_FAILED
  /\ UNCHANGED <<focus, other, viewer>>
  /\ UNCHANGED <<loader, text, contentLength, onProgress, fetchPending, carried,
                 pos, done, buffer, headerEnd, vertexCount, loadedBytes, points,
                 lastPct, calls, fed, msgs, workerAlive, result>>

\* the cooperative loaders over a source that may fail
FailingInit == Init /\ loader \in {"ply", "txt"}

FailingNext ==
  \/ PlyHeaderRead
  \/ PlyBodyRead
  \/ PlyYield
  \/ TxtRead
  \/ TxtYield
  \/ NoReadableBody
  \/ ReaderFails

FailingSpec == FailingInit /\ [][FailingNext]_vars

\* ------------------------------------------------------------------------
\* Two loads started in the same caller context
\* ------------------------------------------------------------------------
\* the locals of a load of text t that has just been called
StartOf(l, t, cl) ==
  <<l, t, cl, TRUE, 0, FALSE, IF l = "ply" THEN "ply_header" ELSE "txt_read",
    <<>>, FALSE, 0, 0, <<>>, NoPct, <<>>, FALSE, <<>>, FALSE, FALSE, <<>>,
    "none", 0>>

\* the texts of the concurrent loads: short ones giving different arrays
ConcurrentTexts(l) ==
  IF l = "txt" THEN {THREE \o <<NL>> \o GOOD1 \o <<NL>>}
  ELSE {HEADER1 \o GOOD1 \o <<NL>>}

ConcurrentInit ==
  /\ loader \in {"ply", "txt"}
  /\ text \in ConcurrentTexts(loader)
  /\ contentLength = Len(text)
  /\ onProgress = TRUE
  /\ pos = 0
  /\ done = FALSE
  /\ pc = IF loader = "ply" THEN "ply_header" ELSE "txt_read"
  /\ buffer = <<>>
  /\ headerEnd = FALSE
  /\ vertexCount = 0
  /\ loadedBytes = 0
  /\ points = <<>>
  /\ lastPct = NoPct
  /\ fed = <<>>
  /\ carried = FALSE
  /\ msgs = <<>>
  /\ workerAlive = FALSE
  /\ fetchPending = FALSE
  /\ result = <<>>
  /\ error = "none"
  /\ calls = 0
  /\ focus = 1
  /\ other \in { StartOf(l, t, Len(t)) : l \in {"ply", "txt"},
                                         t \in ConcurrentTexts("ply")
                                               \cup ConcurrentTexts("txt") }
  /\ other[2] \in ConcurrentTexts(other[1])
  /\ ViewerMounted

Switch_sharedBuffer ==
  /\ other # <<>>
  /\ focus' = 3 - focus
  /\ other' = locals
  /\ loader' = other[1] /\ text' = other[2] /\ contentLength' = other[3]
  /\ onProgress' = other[4] /\ pos' = other[5] /\ done' = other[6]
  /\ pc' = other[7] /\ buffer' = buffer /\ headerEnd' = other[9]
  /\ vertexCount' = other[10] /\ loadedBytes' = other[11]
  /\ points' = other[12] /\ lastPct' = other[13] /\ fed' = other[14]
  /\ carried' = other[15] /\ msgs' = other[16] /\ workerAlive' = other[17]
  /\ fetchPending' = other[18] /\ result' = other[19] /\ error' = other[20]
  /\ calls' = other[21]
  /\ UNCHANGED viewer

\* at an await the event loop resumes the other call: its continuation runs
\* on its own locals and closures (plyLoader.ts:98-105, 151-153,
\* txtLoader.ts:15-22), those of the running call are kept for its next turn
Switch ==
  /\ other # <<>>
  /\ focus' = 3 - focus
  /\ other' = locals
  /\ loader' = other[1] /\ text' = other[2] /\ contentLength' = other[3]
  /\ onProgress' = other[4] /\ pos' = other[5] /\ done' = other[6]
  /\ pc' = other[7] /\ buffer' = other[8] /\ headerEnd' = other[9]
  /\ vertexCount' = other[10] /\ loadedBytes' = other[11]
  /\ points' = other[12] /\ lastPct' = other[13] /\ fed' = other[14]
  /\ carried' = other[15] /\ msgs' = other[16] /\ workerAlive' = other[17]
  /\ fetchPending' = other[18] /\ result' = other[19] /\ error' = other[20]
  /\ calls' = other[21]
  /\ UNCHANGED viewer

ConcurrentNext ==
  \/ PlyHeaderRead
  \/ PlyBodyRead
  \/ PlyYield
  \/ TxtRead
  \/ TxtYield
  \/ Switch

ConcurrentSpec == ConcurrentInit /\ [][ConcurrentNext]_vars

\* ------------------------------------------------------------------------
\* PointCloudViewer: the load effect and its completions
\* ------------------------------------------------------------------------
\* how many loads are started in one run
MaxRequests == 4

\* URL.createObjectURL gives a new URL each time
BlobUrls == <<"blob:1", "blob:2", "blob:3", "blob:4", "blob:5", "blob:6">>

\* the effect of PointCloudViewer.tsx:142-306 run by the mounted instance for
\* path f: setLoading(true), setError(null), the cloud pointsRef refers to is
\* removed from the scene, pointsRef becomes null, and a load of f starts.
\* The effect returns no cleanup function: earlier loads stay in flight with
\* their then/catch callbacks attached.
LoadEffect(f) ==
  /\ loading' = TRUE
  /\ viewerError' = "null"
  /\ scene' = [scene EXCEPT ![resetKey] = @ \ {pointsRef[resetKey]}]
  /\ pointsRef' = [pointsRef EXCEPT ![resetKey] = NoMesh]
  /\ requests' = requests + 1
  /\ pending' = pending \cup {Load(requests + 1, resetKey, f)}

\* a new instance is mounted under key k with path f: the old instance's
\* cleanup (PointCloudViewer.tsx:119-138) stops its rendering and leaves its
\* sceneRef in place; the new instance has refs of its own, an empty scene,
\* loading = true, and its load effect starts the load of f
Remount(k, f) ==
  /\ resetKey' = k
  /\ filePath' = f
  /\ loading' = TRUE
  /\ viewerError' = "null"
  /\ scene' = [j \in DOMAIN scene \cup {k} |-> IF j = k THEN {} ELSE scene[j]]
  /\ pointsRef' = [j \in DOMAIN pointsRef \cup {k} |->
                     IF j = k THEN NoMesh ELSE pointsRef[j]]
  /\ requests' = requests + 1
  /\ pending' = pending \cup {Load(requests + 1, k, f)}

\* the mounted instance is rendered again with another filePath and the same
\* key: the effect's dependency [filePath] changed, so the effect runs again
FilePathChanges ==
  /\ requests < MaxRequests
  /\ \E f \in {TEST_PLY, OTHER_PLY} \ {filePath} :
       /\ filePath' = f
       /\ LoadEffect(f)
  /\ UNCHANGED resetKey
  /\ UNCHANGED <<locals, focus, other>>

\* App.tsx:15-31, reader.onload: setCurrentFile(url) and setResetKey(prev + 1)
\* in one callback, so the viewer is mounted anew with the blob URL
handleLoadFile ==
  /\ requests < MaxRequests
  /\ Remount(resetKey + 1, BlobUrls[resetKey + 1])
  /\ UNCHANGED <<locals, focus, other>>

\* App.tsx:11-13: setResetKey(prev + 1) mounts the viewer anew, same path
handleResetView ==
  /\ requests < MaxRequests
  /\ Remount(resetKey + 1, filePath)
  /\ UNCHANGED <<locals, focus, other>>

\* PointCloudViewer.tsx:175-300, the then callback of a load: whichever load
\* it belongs to, it adds its Points object to its instance's
\* sceneRef.current and stores it in pointsRef; the state setters act on a
\* mounted instance only
LoadResolved ==
  \E l \in pending :
    /\ pending' = pending \ {l}
    /\ scene' = [scene EXCEPT ![l.inst] = @ \cup {pointsMesh(l)}]
    /\ pointsRef' = [pointsRef EXCEPT ![l.inst] = pointsMesh(l)]
    /\ loading' = IF l.inst = resetKey THEN FALSE ELSE loading
    /\ viewerError' = IF l.inst = resetKey THEN "null" ELSE viewerError
    /\ UNCHANGED <<filePath, resetKey, requests>>
    /\ UNCHANGED <<locals, focus, other>>

\* PointCloudViewer.tsx:301-305, the catch callback of a load
LoadRejected ==
  \E l \in pending :
    /\ pending' = pending \ {l}
    /\ loading' = IF l.inst = resetKey THEN FALSE ELSE loading
    /\ viewerError' = IF l.inst = resetKey THEN "failed" ELSE viewerError
    /\ UNCHANGED <<filePath, resetKey, scene, pointsRef, requests>>
    /\ UNCHANGED <<locals, focus, other>>

ViewerInit == Init /\ loader = "simple" /\ text = HEADER1 \o GOOD1 \o <<NL>>

ViewerNext ==
  \/ FilePathChanges
  \/ handleLoadFile
  \/ handleResetView
  \/ LoadResolved
  \/ LoadRejected

ViewerSpec == ViewerInit /\ [][ViewerNext]_vars



\* ------------------------------------------------------------------------
\* Reference notions on the whole input text, used by the properties
\* ------------------------------------------------------------------------
Last(s) == s[Len(s)]
IsPrefix(a, b) == Len(a) <= Len(b) /\ SubSeq(b, 1, Len(a)) = a
NonEmptyLines(ls) == SelectSeq(ls, LAMBDA l : l # <<>>)
AllDigits(s) == s # <<>> /\ \A i \in 1..Len(s) : IsDigit(s[i])

\* some line of the text equals end_header (as the scanner compares: trimmed)
HasEndHeaderLine(t) ==
  LET ls == split(t) IN \E i \in 1..Len(ls) : trim(ls[i]) = END_HEADER

\* the header as read from the undivided text, and the text after it
WholeScan(t) == scanHeader(split(t), 0)
BodyText(t) == sliceJoin(split(t), WholeScan(t).next)

\* the lines of the body that end with a newline
CompleteLines(l, t) == popLast(split(IF l = "txt" THEN t ELSE BodyText(t)))

\* the body loop run once over all complete lines of the undivided text
WholeRun(l, t) ==
  IF l = "txt"
  THEN [points |-> txtProcessLines(CompleteLines(l, t), 1, <<>>),
        next |-> Len(CompleteLines(l, t)) + 1]
  ELSE plyProcessLines(CompleteLines(l, t), 1, <<>>, WholeScan(t).vertexCount)

\* per input text: whether it has an end_header line, the non-empty lines the
\* whole run hands to the tokenizer, and the points it decodes
WholeText ==
  [l \in {"ply", "txt"} |->
    [t \in TextsFor(l) |->
      [endHeader |-> HasEndHeaderLine(t),
       fed |-> NonEmptyLines(SubSeq(CompleteLines(l, t), 1,
                                    WholeRun(l, t).next - 1)),
       points |-> WholeRun(l, t).points]]]

\* the counts of the declaration lines standing before the first end_header
\* line of the text, in order (of all lines when there is no such line)
DeclarationValues(t) ==
  LET ls == split(t)
      ends == { i \in 1..Len(ls) : trim(ls[i]) = END_HEADER }
      n == IF ends = {} THEN Len(ls)
           ELSE (CHOOSE e \in ends : \A f \in ends : e <= f) - 1
      isDecl(l) == /\ startsWith(trim(l), ELEMENT_VERTEX)
                   /\ matchVertexCount(trim(l)) # -1
      decls == SelectSeq(SubSeq(ls, 1, n), isDecl)
  IN [i \in 1..Len(decls) |-> matchVertexCount(trim(decls[i]))]

\* per format-A text: the count of its last declaration, -1 without one
LastDeclared ==
  [t \in TextsFor("ply") |->
    IF DeclarationValues(t) = <<>> THEN -1 ELSE Last(DeclarationValues(t))]

\* the fields of a line, and lines of n numeric fields
Fields(line) == splitOn(line, SP)
NumericFields(line, n) ==
  Len(Fields(line)) = n /\ \A i \in 1..n : AllDigits(Fields(line)[i])
Range(f) == { f[i] : i \in DOMAIN f }

\* the color a format-B field stands for: its leading digits, else 255
ColorOf(field) ==
  IF field # <<>> /\ IsDigit(field[1]) THEN DecimalValue(DigitPrefix(field))
  ELSE 255

\* a is b with some elements left out, the order kept
RECURSIVE IsSubseq(_, _)
IsSubseq(a, b) ==
  IF a = <<>> THEN TRUE
  ELSE IF b = <<>> THEN FALSE
  ELSE IF Head(a) = Head(b) THEN IsSubseq(Tail(a), Tail(b))
  ELSE IsSubseq(a, Tail(b))

RECURSIVE Flatten(_)
Flatten(ss) == IF ss = <<>> THEN <<>> ELSE Head(ss) \o Flatten(Tail(ss))

\* per input text: the records of all its body lines, line by line in input
\* order (the last line, having no newline, by the residual-line tokenizer)
LineRecords ==
  [l \in {"ply", "txt"} |->
    [t \in TextsFor(l) |->
      LET ls == split(IF l = "txt" THEN t ELSE BodyText(t))
          rec(i) == IF l = "txt"
                    THEN (IF i < Len(ls) THEN txtParseLine(ls[i])
                          ELSE txtParseTail(ls[i]))
                    ELSE (IF i < Len(ls) THEN plyParseLine(ls[i])
                          ELSE plyParseTail(ls[i]))
      IN Flatten([i \in 1..Len(ls) |-> rec(i)])]]

\* six single-space-separated numeric fields
SixNumericFields(line) ==
  LET f == splitOn(line, SP)
  IN Len(f) = 6 /\ \A i \in 1..6 : AllDigits(f[i])

\* per input text: the points written on its well-formed body lines (six
\* numeric fields), in order; in format A the first N of them, N the
\* declared count
WellFormedRecords ==
  [l \in {"ply", "txt"} |->
    [t \in TextsFor(l) |->
      LET ls == SelectSeq(split(IF l = "txt" THEN t ELSE BodyText(t)),
                          SixNumericFields)
          n == IF l = "txt" THEN Len(ls) ELSE Min(Len(ls), Max(LastDeclared[t], 0))
      IN [i \in 1..n |->
            Point(DecimalValue(Fields(ls[i])[1]), DecimalValue(Fields(ls[i])[2]),
                  DecimalValue(Fields(ls[i])[3]), DecimalValue(Fields(ls[i])[4]),
                  DecimalValue(Fields(ls[i])[5]), DecimalValue(Fields(ls[i])[6]))]]]

\* valid format-A input: a declaration of N, end_header, exactly N body lines
\* of six numeric fields (the last one with or without its newline)
ValidFormatA(t) ==
  LET ls == split(t)
      s == WholeScan(t)
      rest == IF s.next > Len(ls) THEN <<>> ELSE SubSeq(ls, s.next, Len(ls))
      body == IF rest # <<>> /\ Last(rest) = <<>> THEN popLast(rest) ELSE rest
  IN /\ s.headerEnd
     /\ \E i \in 1..Len(ls) : matchVertexCount(trim(ls[i])) # -1
     /\ Len(body) = s.vertexCount
     /\ \A i \in 1..Len(body) : SixNumericFields(body[i])

HasNaNField(p) ==
  isNaN(p.x) \/ isNaN(p.y) \/ isNaN(p.z) \/ isNaN(p.r) \/ isNaN(p.g) \/ isNaN(p.b)

Hundred == Pct(100, 1)

\* ------------------------------------------------------------------------
\* Properties
\* ------------------------------------------------------------------------

\* C1: loadPLYFile settles on every finite stream: once the reader has
\* reported the end of the stream the body loop stops reading, also when the
\* buffer still holds a non-empty last line and fewer points than declared
\* have been decoded (it is never found waiting for one more read then).
C1_PlyStopsReadingAtEnd ==
  ~(loader = "ply" /\ done /\ buffer # <<>> /\ pc = "ply_body")

\* C2: loadTXTFile settles on every finite stream: once the reader has
\* reported the end of the stream the read loop exits, also when the buffer
\* still holds a non-empty last line.
C2_TxtStopsReadingAtEnd ==
  ~(loader = "txt" /\ done /\ buffer # <<>> /\ pc = "txt_read")

\* the stream is exhausted, the loop has not been left, and the buffer holds
\* a last line without newline that the tail tokenizer accepts
C3_ResidualPending ==
  /\ done
  /\ \/ loader = "ply" /\ pc \in {"ply_body", "ply_yield"}
        /\ pointIndex < vertexCount /\ plyParseTail(buffer) # <<>>
     \/ loader = "txt" /\ pc \in {"txt_read", "txt_yield"}
        /\ txtParseTail(buffer) # <<>>

C3_ResidualIsLastPoint ==
  /\ pc = "resolved"
  /\ result # <<>>
  /\ <<Last(result)>> = IF loader = "ply" THEN plyParseTail(buffer)
                        ELSE txtParseTail(buffer)

\* C3: when the stream is exhausted and the final line has no newline, the
\* loader's next step runs that line through the tail tokenizer and returns:
\* a well-formed final line is the last point of the returned array.
C3_ResidualLineTokenized ==
  [][C3_ResidualPending => C3_ResidualIsLastPoint']_vars

\* C4: on valid format-A input declaring N vertices loadPLYFile resolves with
\* exactly N points under every chunking: it settles in no other way, and
\* after the end of the stream it is not left waiting for one more read.
C4_ValidInputYieldsDeclaredCount ==
  (loader = "ply" /\ ValidFormatA(text))
    => /\ pc \in Settled
            => (pc = "resolved" /\ Len(result) = WholeScan(text).vertexCount)
       /\ done => pc # "ply_body"

\* C5: no point of an array returned by a format-A load (loadPLYFile, the
\* worker loader) has NaN in any of its six fields.
C5_NoNaNFieldReturned ==
  (pc = "resolved" /\ loader \in {"ply", "worker"})
    => \A i \in 1..Len(result) : ~HasNaNField(result[i])

C7_ProgressMonotone == [][PctLE(lastPct, lastPct')]_vars

\* C8: when loadPLYFile or loadTXTFile resolves and a callback was passed, the
\* last percentage emitted is exactly 100, also when the content length is
\* unknown and when fewer points were decoded than declared.
C8_FinalProgressIs100 ==
  (pc = "resolved" /\ loader \in {"ply", "txt"} /\ onProgress)
    => PctEq(lastPct, Hundred)

\* C9: when loadPLYFileWithWorker resolves, the last percentage delivered to
\* onProgress is exactly 100.
C9_WorkerFinalProgressIs100 ==
  (pc = "resolved" /\ loader = "worker" /\ onProgress)
    => PctEq(lastPct, Hundred)

\* C10: when no line of the stream equals end_header, a format-A load does not
\* resolve with an array: it rejects, under every chunking and with or without
\* a declared vertex count.
C10_NoEndHeaderNeverResolves ==
  (loader \in {"ply", "worker"} /\ ~HasEndHeaderLine(text))
    => pc # "resolved"

\* C11: with several declaration lines before end_header, the count used for
\* the body phase of loadPLYFile is the one of the last declaration, under
\* every chunking of the header.
C11_LastDeclarationWins ==
  (/\ loader = "ply" /\ headerEnd
   /\ WholeText["ply"][text].endHeader
   /\ LastDeclared[text] # -1)
    => vertexCount = LastDeclared[text]

\* a load of a text declaring 1 and then 2 that resolved with two points
C11_Witness ==
  /\ loader = "ply" /\ pc = "resolved"
  /\ Len(DeclarationValues(text)) = 2
  /\ DeclarationValues(text)[1] # DeclarationValues(text)[2]
  /\ vertexCount = 2 /\ Len(result) = 2

\* C12: loadPLYFile on the text
\* "element vertex 2\nend_header\n1 2 3 255 0 0\n4 5 6 0 255 0\n" settles, under
\* every chunking, only by resolving with the two points (1,2,3,255,0,0) and
\* (4,5,6,0,255,0) in that order, the last percentage emitted being 100; it
\* is never found about to read again after the end of the stream.
C12_EndToEndExample ==
  (loader = "ply" /\ text = END_TO_END)
    => /\ pc # "rejected"
       /\ ~(done /\ pc = "ply_body")
       /\ pc = "resolved"
            => /\ result = << Point(1, 2, 3, 255, 0, 0), Point(4, 5, 6, 0, 255, 0) >>
               /\ onProgress => PctEq(lastPct, Hundred)

\* the example text resolved, a callback passed, after a chunk had ended
\* inside a body line
C12_Witness ==
  /\ loader = "ply" /\ text = END_TO_END /\ pc = "resolved"
  /\ onProgress /\ carried /\ Len(result) = 2

\* C13: in loadTXTFile every line of exactly three numeric fields handed to
\* the tokenizer, whatever its length, has yielded the point with those
\* coordinates and color (255,255,255).
C13_ThreeFieldsYieldWhitePoint ==
  loader = "txt"
    => \A i \in 1..Len(fed) :
         NumericFields(fed[i], 3)
           => Point(DecimalValue(Fields(fed[i])[1]),
                    DecimalValue(Fields(fed[i])[2]),
                    DecimalValue(Fields(fed[i])[3]), 255, 255, 255)
                \in Range(points)

\* C14: in loadTXTFile every line of six fields with numeric position fields
\* handed to the tokenizer has yielded a point in which each color component
\* that does not parse is 255 and every other component has its parsed value.
C14_ColorFallbackPerComponent ==
  loader = "txt"
    => \A i \in 1..Len(fed) :
         (/\ Len(Fields(fed[i])) = 6
          /\ \A j \in 1..3 : AllDigits(Fields(fed[i])[j]))
           => Point(DecimalValue(Fields(fed[i])[1]),
                    DecimalValue(Fields(fed[i])[2]),
                    DecimalValue(Fields(fed[i])[3]),
                    ColorOf(Fields(fed[i])[4]),
                    ColorOf(Fields(fed[i])[5]),
                    ColorOf(Fields(fed[i])[6]))
                \in Range(points)

\* a resolved format-B load that returned a point with r defaulted to 255 and
\* one with b defaulted to 255, the other components as written
C14_Witness ==
  /\ loader = "txt" /\ pc = "resolved"
  /\ Point(1, 2, 3, 255, 5, 6) \in Range(result)
  /\ Point(1, 2, 3, 4, 5, 255) \in Range(result)

\* C15: in loadPLYFile a body line with fewer than six fields adds no point
\* and does not advance the decoded count: there are never more points than
\* lines of at least six fields handed to the tokenizer.
C15_ShortLinesSkipped ==
  loader = "ply"
    => pointIndex <= Cardinality({ i \in 1..Len(fed) : Len(Fields(fed[i])) >= 6 })

\* C16: the points decoded so far, and the array returned, are the records
\* of an order-preserving subsequence of the body lines of the input, under
\* every chunking (loadPLYFile, loadTXTFile).
C16_InputOrderPreserved ==
  loader \in {"ply", "txt"}
    => /\ IsSubseq(points, LineRecords[loader][text])
       /\ pc = "resolved" => IsSubseq(result, LineRecords[loader][text])

\* a format-B load that returned two different points after a chunk had ended
\* inside a line
C16_Witness ==
  /\ loader = "txt" /\ pc = "resolved" /\ carried
  /\ Len(result) = 2 /\ result[1] # result[2]

\* C19: a record-level failure never aborts a load (loadPLYFile with a header
\* that has an end_header line, loadTXTFile): the load does not reject, and
\* the array it resolves with holds, in order, the point of every well-formed
\* body line up to the declared count, whatever malformed lines stand between.
C19_MalformedLinesAbsorbed ==
  (/\ loader \in {"ply", "txt"}
   /\ WholeText[loader][text].endHeader \/ loader = "txt")
    => /\ pc # "rejected"
       /\ pc = "resolved"
            => IsSubseq(WellFormedRecords[loader][text], result)

\* C20: loadPLYFile and loadTXTFile suspend after every batch of BATCH_SIZE
\* decoded records: no step takes the decoded count beyond the end of the
\* batch it was in (the suspensions happen at the multiples of BATCH_SIZE, so
\* more than BATCH_SIZE records would have been decoded since the last one).
C20_SuspendsEveryBatch ==
  [][(loader \in {"ply", "txt"})
       => (Len(points') <= ((Len(points) \div BATCH_SIZE) + 1) * BATCH_SIZE)]_vars

\* C18: in loadPLYFileWithWorker every terminal event (worker error message,
\* worker complete message, worker onerror, failed fetch) leaves the worker
\* terminated and the promise settled, the two always together; and a settled
\* promise never changes again, whatever event comes later.
C18_WorkerTornDownSettledOnce ==
  [][(loader = "worker")
       => (/\ (pc' \in Settled) = (~workerAlive')
           /\ (pc \in Settled)
                => (pc' = pc /\ result' = result /\ error' = error))]_vars

\* the promise was rejected by worker.onerror while the fetch was still
\* outstanding, and the fetch has since ended
C18_Witness ==
  /\ loader = "worker" /\ pc = "rejected" /\ error = "worker error"
  /\ ~fetchPending /\ ~workerAlive /\ pos = 0

\* the locals of load i, running or suspended
LoadState(i) == IF focus = i THEN locals ELSE other

\* C17: two loads started concurrently (any mix of loadPLYFile and
\* loadTXTFile, interleaved at their awaits in any order) do not affect each
\* other: a load's state changes only in its own turns, never in a turn of
\* the other load or when the event loop passes from one to the other, and a
\* load that resolves returns the array its text gives when loaded alone.
C17_ConcurrentLoadsIsolated ==
  [][(/\ \A i \in {1, 2} :
           (LoadState(i)' # LoadState(i)) => (focus = i /\ focus' = i)
      /\ (pc' = "resolved") => (result' = WholeText[loader'][text'].points))]_vars

\* both loads have resolved, each after chunks ending inside lines, with
\* different arrays
C17_Witness ==
  /\ other # <<>>
  /\ pc = "resolved" /\ other[7] = "resolved"
  /\ carried /\ other[15]
  /\ loader # other[1]
  /\ result # <<>> /\ other[19] # <<>> /\ result # other[19]

\* C21: when no declaration line stands before end_header the declared count
\* is 0 and the load is not fatal: loadPLYFile never rejects and is never left
\* reading, the worker loader never reports a missing end_header, and both
\* resolve with an (empty) array.
C21_NoDeclarationIsNotFatal ==
  (/\ loader \in {"ply", "worker"}
   /\ WholeText["ply"][text].endHeader
   /\ LastDeclared[text] = -1)
    => /\ error # "end_header not found"
       /\ loader = "ply" => (pc # "rejected" /\ ~done)
       /\ (loader = "ply" /\ headerEnd) => vertexCount = 0
       /\ pc = "resolved" => result = <<>>

\* a text without declaration, with a body line after end_header, resolved
C21_Witness ==
  /\ loader = "ply" /\ pc = "resolved" /\ onProgress
  /\ LastDeclared[text] = -1 /\ WholeText["ply"][text].endHeader
  /\ Len(text) > Len(HEADER_NODECL)

\* per ply text: how many body lines start with three numeric fields
CoordinateLines ==
  [t \in TextsFor("ply") |->
    LET ls == split(BodyText(t))
    IN Cardinality({ i \in 1..Len(ls) :
         LET f == splitOn(trim(ls[i]), SP)
         IN Len(f) >= 3 /\ \A j \in 1..3 : AllDigits(f[j]) })]

\* C22: in both formats and both execution modes a line whose x, y or z
\* does not parse is discarded: no decoded or returned point has a NaN
\* coordinate, and the returned array is exactly the decoded points, with no
\* entry standing for a discarded line.
C22_NoNaNCoordinateNoHole ==
  /\ \A i \in 1..Len(points) :
       points[i].x # NaN /\ points[i].y # NaN /\ points[i].z # NaN
  /\ pc = "resolved"
       => /\ \A i \in 1..Len(result) :
               result[i].x # NaN /\ result[i].y # NaN /\ result[i].z # NaN
          /\ loader \in {"ply", "txt"} => result = points
          /\ loader = "worker" => Len(result) <= CoordinateLines[text]

\* a load of a text with a non-numeric x and a non-numeric z line resolved
\* with the one point of its well-formed line
C22_Witness ==
  /\ pc = "resolved"
  /\ text \in {BAD_COORDINATES, HEADER2 \o BAD_COORDINATES}
  /\ result = <<Point(1, 2, 3, 4, 5, 6)>>

\* C23: onProgress is invoked only before settlement: once the promise of a
\* load has resolved or rejected, no step invokes the callback again (neither
\* the count of invocations nor the latest percentage changes), in the
\* cooperative loaders and in the worker loader.
C23_NoProgressAfterSettlement ==
  [][(pc \in Settled \/ error # "none")
       => (calls' = calls /\ lastPct' = lastPct)]_vars

\* a worker load settled after its callback had been invoked, with a later
\* step (the fetch of a rejected load, or none) still possible
C23_Witness ==
  /\ loader = "worker" /\ onProgress
  /\ pc = "resolved" /\ calls > 0 /\ ~workerAlive

\* C24: every percentage loadPLYFile or loadTXTFile passes to onProgress lies
\* in [0, 100], whatever the stream and the declared content length.
C24_PercentageWithinRange ==
  (loader \in {"ply", "txt"} /\ lastPct # NoPct)
    => (PctLE(Pct(0, 1), lastPct) /\ PctLE(lastPct, Hundred))

\* C25: when a read from the byte source fails, or the response has no
\* readable body, loadPLYFile and loadTXTFile reject with that error and
\* return no array, whatever had been decoded before the failure.
C25_SourceFailureRejects ==
  (error \in {NO_BODY, READ_FAILED}) => (pc = "rejected" /\ result = <<>>)

\* a read failed after a point had been decoded
C25_Witness ==
  /\ error = READ_FAILED /\ pc = "rejected" /\ points # <<>> /\ pos < Len(text)

\* per format-A text with an end_header line: the non-empty lines standing
\* after the first such line, taken from the undivided text
LinesAfterHeader ==
  [t \in TextsFor("ply") |->
    LET ls == split(t)
        ends == { i \in 1..Len(ls) : trim(ls[i]) = END_HEADER }
        e == CHOOSE i \in ends : \A j \in ends : i <= j
    IN IF ends = {} THEN <<>>
       ELSE NonEmptyLines(SubSeq(ls, e + 1, Len(ls)))]

\* the bytes the reader has not delivered yet
Unread == SubSeq(text, pos + 1, Len(text))

\* C26: body lines that arrive in the chunk containing end_header are kept
\* for the tokenizer: at every moment of the body phase the lines handed to
\* the tokenizer so far are the first body lines of the text, each once and
\* in order, and until the declared count is reached every other body line
\* is still ahead (in the carry buffer or in the bytes not yet read).
C26_HeaderChunkBodyLinesForwarded ==
  (loader = "ply" /\ headerEnd /\ WholeText["ply"][text].endHeader)
    => /\ IsPrefix(NonEmptyLines(fed), LinesAfterHeader[text])
       /\ Len(points) < vertexCount
            => NonEmptyLines(fed \o split(buffer \o Unread))
                 = LinesAfterHeader[text]

\* the body line was tokenized by the read that reported the end of the
\* stream: it had arrived together with the end_header line
C26_Witness ==
  /\ loader = "ply" /\ text = HEADER1 \o GOOD1 \o <<NL>>
  /\ pc = "resolved" /\ done
  /\ fed = <<GOOD1>> /\ result = <<Point(1, 2, 3, 4, 5, 6)>>

\* C27: in format A every percentage emitted by the header phase lies in
\* [0, 50] and every percentage emitted by the body phase, the final emission
\* apart, lies in [50, 100].
C27_PhasePercentageRanges ==
  [][(/\ loader = "ply"
      /\ pc' # "resolved"
      /\ lastPct' # NoPct
      /\ (lastPct' # lastPct \/ calls' # calls))
       => IF pc = "ply_header"
          THEN PctLE(Pct(0, 1), lastPct') /\ PctLE(lastPct', Pct(50, 1))
          ELSE PctLE(Pct(50, 1), lastPct') /\ PctLE(lastPct', Hundred)]_vars

\* the body phase has emitted its percentage at a batch boundary and the
\* load goes on reading
C27_Witness ==
  /\ loader = "ply" /\ pc = "ply_body" /\ headerEnd /\ vertexCount > 0
  /\ lastPct = Pct(50 * vertexCount + 50 * pointIndex, vertexCount)

\* C28: in cooperative mode onProgress fires only at batch boundaries of the
\* decoded-record count and at the final emission: a resolved load has
\* invoked it at most (records decoded / BATCH_SIZE) + 1 times, however many
\* chunks the stream came in.
C28_CallbacksBoundedByBatches ==
  (loader \in {"ply", "txt"} /\ pc = "resolved")
    => calls <= (Len(result) \div BATCH_SIZE) + 1

\* per format-A text with an end_header line: the number of bytes up to and
\* including the newline that ends the first such line (the length of the
\* text when that line has no newline)
HeaderBytes ==
  [t \in TextsFor("ply") |->
    LET ls == split(t)
        ends == { i \in 1..Len(ls) : trim(ls[i]) = END_HEADER }
        e == CHOOSE i \in ends : \A j \in ends : i <= j
    IN IF ends = {} THEN Len(t)
       ELSE Min(Len(t), Len(join(SubSeq(ls, 1, e))) + 1)]

\* the bytes delivered so far that belong to the body
DeliveredBody ==
  IF loader = "txt" THEN SubSeq(text, 1, pos)
  ELSE SubSeq(text, HeaderBytes[text] + 1, pos)

\* C29: byte-exact reconstruction: the lines handed to the tokenizer so far,
\* joined with newlines and followed by the carry buffer, are exactly the
\* bytes delivered so far (in format A: those after the end_header line), as
\* long as the declared count has not been reached.
C29_ByteExactReconstruction ==
  (\/ loader = "txt"
   \/ /\ loader = "ply" /\ headerEnd /\ WholeText["ply"][text].endHeader
      /\ Len(points) < vertexCount)
    => join(Append(fed, buffer)) = DeliveredBody

\* C30: after each chunk has been processed the carry buffer holds at most
\* one partial line: it contains no newline character, in the header phase
\* as well as in the body phase.
C30_BufferHoldsOnePartialLine ==
  loader \in {"ply", "txt"} => \A i \in 1..Len(buffer) : buffer[i] # NL

\* C31: loadPLYFile passes from header scanning to body parsing once, at the
\* first end_header line: the count then is the one declared before that
\* line, and from then on no step changes the count or returns to the header
\* scan, also when the body holds an 'element vertex <n>' or an end_header
\* line.
C31_HeaderTransitionOnce ==
  /\ []((loader = "ply" /\ headerEnd /\ WholeText["ply"][text].endHeader)
          => vertexCount = Max(LastDeclared[text], 0))
  /\ [][(loader = "ply" /\ headerEnd)
          => (headerEnd' /\ vertexCount' = vertexCount
              /\ pc' # "ply_header")]_vars

\* the body's declaration and end_header lines went through the tokenizer
\* and the load resolved with the one point declared by the header
C31_Witness ==
  /\ loader = "ply" /\ text = HEADER_LINES_IN_BODY
  /\ pc = "resolved" /\ vertexCount = 1
  /\ Len(fed) = 3 /\ trim(fed[2]) = END_HEADER
  /\ result = <<Point(1, 2, 3, 4, 5, 6)>>

\* C32: in every state of a format-A load the decoded count does not exceed
\* the declared count, and a returned array has no more points than the text
\* declares: body lines beyond the declared count are ignored, in loadPLYFile,
\* the worker loader, loadPLYFileOptimized and loadPLYFileSimple.
C32_DecodedNeverExceedsDeclared ==
  /\ loader \in {"ply", "simple", "optimized"} => Len(points) <= vertexCount
  /\ (loader \in {"ply", "worker", "simple", "optimized"} /\ pc = "resolved")
       => Len(result) <= Max(LastDeclared[text], 0)

\* a load of a text declaring one vertex and holding two well-formed lines
\* resolved with the first point only
C32_Witness ==
  /\ loader = "optimized" /\ pc = "resolved"
  /\ text = HEADER1 \o GOOD1 \o <<NL>> \o GOOD2 \o <<NL>>
  /\ result = <<Point(1, 2, 3, 4, 5, 6)>>

\* C33: the outcome of the header phase of loadPLYFile depends on the header
\* text only: under every chunking the terminator is found exactly when the
\* text has an end_header line, and the count then is the one the undivided
\* text declares; a fragment of a line is never taken for a complete line.
C33_HeaderOutcomeChunkIndependent ==
  (loader = "ply" /\ headerEnd)
    => /\ WholeText["ply"][text].endHeader
       /\ vertexCount = Max(LastDeclared[text], 0)

\* C34: in loadTXTFile the residual-line tokenizer and the in-loop tokenizer
\* agree on every line: for each line the read loop has tokenized, the tail
\* path yields the same point, or the same skip, lines of 3 or 4 fields
\* included.
C34_TailTokenizerAgrees ==
  loader = "txt"
    => \A i \in 1..Len(fed) : txtParseTail(fed[i]) = txtParseLine(fed[i])

\* per format-A text: the message with which the worker ends its work on the
\* text ('complete' with the array, or 'error')
WorkerOutcome ==
  [t \in TextsFor("ply") |-> Last(workerOnMessage(t))]

\* C35: loadPLYFile and loadPLYFileWithWorker give the same outcome for the
\* same text (here: a text with an end_header line, so that both find the
\* header): when loadPLYFile has settled, it has rejected where the worker
\* reports an error, and resolved with the array the worker completes with.
C35_CooperativeMatchesWorker ==
  (loader = "ply" /\ pc \in Settled /\ WholeText["ply"][text].endHeader)
    => IF pc = "resolved"
       THEN /\ WorkerOutcome[text].kind = "complete"
            /\ result = WorkerOutcome[text].points
       ELSE WorkerOutcome[text].kind = "error"

\* per format-A text: what loadPLYFileSimple does with it
SimpleOutcome ==
  [t \in TextsFor("ply") |-> loadPLYFileSimple(t)]

\* C36: on every text on which loadPLYFileSimple and the streaming
\* loadPLYFile both resolve, they return the same array, also for lines of
\* fewer than 6 fields.
C36_SimpleMatchesStreaming ==
  (loader = "ply" /\ pc = "resolved" /\ SimpleOutcome[text].headerEnd)
    => result = SimpleOutcome[text].points

\* C37: loadPLYFileOptimized never resolves on a text without an end_header
\* line, also when the text declares a count above 0, and tokenizes no line
\* of such a text.
C37_OptimizedRejectsWithoutEndHeader ==
  (loader = "optimized" /\ ~WholeText["ply"][text].endHeader)
    => (pc # "resolved" /\ fed = <<>>)


\* ------------------------------------------------------------------------
\* C38
\* ------------------------------------------------------------------------
\* the clouds in the scene the mounted viewer renders
Displayed == scene[resetKey]

====
